---- MODULE Spec2Model ----
(***************************************************************************)
(* Model of wx2md-worker's image rewriting and caching layer               *)
(* (src/r2-images.ts, kept here as src/unnamed/part_000) and of the        *)
(* request path that drives it (src/src/converter.ts).                     *)
(*                                                                         *)
(* Text is modelled character by character: a JavaScript string is a TLA+  *)
(* string, which TLC treats as a sequence of one-character strings (Len,   *)
(* SubSeq and \o apply to it).  Regular expressions are modelled by the    *)
(* matcher they denote, the URL class by the parts of the WHATWG parser    *)
(* that the sample inputs exercise.                                        *)
(***************************************************************************)
EXTENDS Integers, Sequences, FiniteSets, TLC

VARIABLES
    html,         \* SpecText: the markup argument
    markdown,     \* SpecText: the document argument
    originalUrl,  \* SpecText: the argument of generateR2PathFromUrl
    returned,     \* SpecText: the function that was called and has returned
    result,       \* SpecText: what replaceImageUrlsSync returned
    r2PathInfo,   \* SpecText: what generateR2PathFromUrl returned
    imageUrls,    \* SpecText: what extractWechatImageUrls returned
    request,      \* SpecText: the path and the format parameter of a request
    routed,       \* SpecText: what the fetch handler did with the request
    env,          \* the bindings: IMAGES_BUCKET (present or not), R2_PUBLIC_URL
    store,        \* the R2 bucket: object key -> customMetadata of the object
    pc,           \* per request: where convertWebpageToMarkdown stands
    page,         \* per request: the page the request asks for (0: none yet)
    response,     \* per request: the Response returned (status 0: none yet)
    task,         \* per request: the promise of uploadImagesToR2Async and its work
    now,          \* the clock: what Date.now() returns, in ms
    retry         \* SpecRetry: one call of fetchWithRetry and what it has done

textVars == <<html, markdown, originalUrl, returned, result, r2PathInfo, imageUrls,
              request, routed>>
pipeVars == <<store, pc, page, response, task, now>>
vars == <<html, markdown, originalUrl, returned, result, r2PathInfo, imageUrls,
          request, routed, env, store, pc, page, response, task, now, retry>>

----------------------------------------------------------------------------
(* JavaScript string primitives.  Intermediate values are handed on as     *)
(* operator arguments, which TLC evaluates once.                           *)

\* s[i-1] in JavaScript: the character at 1-based position i, "" outside s
At(s, i) == IF i >= 1 /\ i <= Len(s) THEN SubSeq(s, i, i) ELSE ""

\* s.startsWith(lit, i-1)
StartsWithAt(s, i, lit) ==
    /\ i >= 1
    /\ i + Len(lit) - 1 <= Len(s)
    /\ SubSeq(s, i, i + Len(lit) - 1) = lit

\* the least element of a set of positions, d if it is empty
Least(S) == CHOOSE j \in S : \A k \in S : j <= k
FirstOr(S, d) == IF S = {} THEN d ELSE Least(S)

\* s.indexOf(lit, i-1) + 1: the first position j >= i where lit occurs, 0 if none
IndexOf(s, lit, i) == FirstOr({j \in i..Len(s) : StartsWithAt(s, j, lit)}, 0)

\* s.includes(lit), lit not empty
includes(s, lit) == IndexOf(s, lit, 1) > 0

UpperCase == "ABCDEFGHIJKLMNOPQRSTUVWXYZ"
LowerCase == "abcdefghijklmnopqrstuvwxyz"
UpperToLower ==
    [c \in {At(UpperCase, k) : k \in 1..Len(UpperCase)} |->
        At(LowerCase, CHOOSE k \in 1..Len(UpperCase) : At(UpperCase, k) = c)]

LowerChar(c) == IF c \in DOMAIN UpperToLower THEN UpperToLower[c] ELSE c

\* s.substring(lo-1, hi).toLowerCase(), by halves
RECURSIVE LowerRange(_, _, _)
LowerRange(s, lo, hi) ==
    IF lo > hi THEN ""
    ELSE IF lo = hi THEN LowerChar(At(s, lo))
    ELSE LowerRange(s, lo, (lo + hi) \div 2) \o LowerRange(s, (lo + hi) \div 2 + 1, hi)

toLowerCase(s) == LowerRange(s, 1, Len(s))

\* a literal of a regular expression with the i flag, matched at position i
StartsWithAtI(s, i, lit) ==
    /\ i >= 1
    /\ i + Len(lit) - 1 <= Len(s)
    /\ LowerRange(s, i, i + Len(lit) - 1) = lit

\* the position after lit matched at i (i flag), 0 if i = 0 or no match
AfterLiteralI(s, i, lit) == IF i > 0 /\ StartsWithAtI(s, i, lit) THEN i + Len(lit) ELSE 0

\* the first position j >= i whose character is in stops, Len(s)+1 if none
\* (i itself when i is beyond s): where a greedy negated class [^stops]*
\* started at i stops
SkipWhileNot(s, i, stops) ==
    FirstOr({j \in i..Len(s) : At(s, j) \in stops}, IF i > Len(s) THEN i ELSE Len(s) + 1)

\* s.replaceAll(from, to) for literal strings, from position i on
RECURSIVE ReplaceAllFrom(_, _, _, _)
ReplaceAllAt(s, i, j, from, to) ==
    IF j = 0 THEN SubSeq(s, i, Len(s))
    ELSE SubSeq(s, i, j - 1) \o to \o ReplaceAllFrom(s, j + Len(from), from, to)

ReplaceAllFrom(s, i, from, to) == ReplaceAllAt(s, i, IndexOf(s, from, i), from, to)

\* the number of (possibly overlapping) occurrences of lit in s
Occurrences(s, lit) == Cardinality({i \in 1..Len(s) : StartsWithAt(s, i, lit)})

\* \s of a regular expression, for the characters the samples use
Whitespace == {" ", "\n", "\t"}

----------------------------------------------------------------------------
(* src/unnamed/part_000 (r2-images.ts): the pure functions *)

isQpicDomain(url) == includes(url, "qpic.cn")

\* new URL(s) for absolute http(s) URLs without credentials, port, dot
\* segments, backslashes or percent escapes; every other string throws
SchemeEnd(s) ==
    IF StartsWithAtI(s, 1, "https://") THEN 9
    ELSE IF StartsWithAtI(s, 1, "http://") THEN 8
    ELSE 0

ForbiddenHostChars == Whitespace \cup {"<", ">", "[", "]", "^", "|", "%", "@", ":", "\\"}

UrlThrows == [throws |-> TRUE, hostname |-> "", pathname |-> "", search |-> ""]

\* the path runs from hEnd to before pEnd, the query (if any) from pEnd
UrlParts(s, host, hEnd, pEnd) ==
    IF host = "" \/ \E i \in 1..Len(host) : At(host, i) \in ForbiddenHostChars
    THEN UrlThrows
    ELSE [throws   |-> FALSE,
          hostname |-> toLowerCase(host),
          pathname |-> IF pEnd = hEnd THEN "/" ELSE SubSeq(s, hEnd, pEnd - 1),
          search   |-> IF At(s, pEnd) = "?"
                       THEN SubSeq(s, pEnd + 1, SkipWhileNot(s, pEnd, {"#"}) - 1)
                       ELSE ""]

UrlAfterHost(s, a, hEnd) ==
    UrlParts(s, SubSeq(s, a, hEnd - 1), hEnd, SkipWhileNot(s, hEnd, {"?", "#"}))

UrlAfterScheme(s, a) ==
    IF a = 0 THEN UrlThrows ELSE UrlAfterHost(s, a, SkipWhileNot(s, a, {"/", "?", "#"}))

URL(s) == UrlAfterScheme(s, SchemeEnd(s))

\* urlObj.searchParams.get(name): the value of the first pair called name,
\* "" when there is none (null and "" are both falsy in the caller)
RECURSIVE searchParamsGet(_, _)
PairValue(search, e, pair, q, name) ==
    IF SubSeq(pair, 1, q - 1) = name
    THEN SubSeq(pair, q + 1, Len(pair))
    ELSE searchParamsGet(SubSeq(search, e + 1, Len(search)), name)

FirstPair(search, e, pair, name) ==
    PairValue(search, e, pair, SkipWhileNot(pair, 1, {"="}), name)

SplitPair(search, e, name) == FirstPair(search, e, SubSeq(search, 1, e - 1), name)

searchParamsGet(search, name) ==
    IF search = "" THEN "" ELSE SplitPair(search, SkipWhileNot(search, 1, {"&"}), name)

\* hostname.replace(/\./g, '_')
\* hostname.replace('.', '_'): a string pattern replaces the first dot only
FirstDotToUnderscore(s) ==
    IF ~includes(s, ".") THEN s
    ELSE SubSeq(s, 1, Least({k \in 1..Len(s) : At(s, k) = "."}) - 1) \o "_"
         \o SubSeq(s, Least({k \in 1..Len(s) : At(s, k) = "."}) + 1, Len(s))

DotsToUnderscores(s) == ReplaceAllFrom(s, 1, ".", "_")

NullPathInfo == [isNull |-> TRUE, path |-> "", extension |-> ""]

\* an inference that looks at the path before the wx_fmt parameter
inferExtensionPathFirst(wxFmt, urlPath) ==
    IF includes(urlPath, "_png") THEN "png"
    ELSE IF includes(urlPath, "_gif") THEN "gif"
    ELSE IF includes(urlPath, "_jpg") \/ includes(urlPath, "_jpeg") THEN "jpg"
    ELSE IF wxFmt # "" THEN (IF wxFmt = "jpeg" THEN "jpg" ELSE wxFmt)
    ELSE "jpg"

inferExtension(wxFmt, urlPath) ==
    IF wxFmt # "" THEN (IF wxFmt = "jpeg" THEN "jpg" ELSE wxFmt)
    ELSE IF includes(urlPath, "_png") THEN "png"
    ELSE IF includes(urlPath, "_gif") THEN "gif"
    ELSE IF includes(urlPath, "_jpg") \/ includes(urlPath, "_jpeg") THEN "jpg"
    ELSE "jpg"

R2PathInfo(domainPrefix, urlPath, extension) ==
    [isNull    |-> FALSE,
     path      |-> "/" \o domainPrefix \o "/" \o urlPath \o "." \o extension,
     extension |-> extension]

R2PathFromParts(urlObj, urlPath) ==
    R2PathInfo(DotsToUnderscores(urlObj.hostname), urlPath,
               inferExtension(searchParamsGet(urlObj.search, "wx_fmt"), urlPath))

R2PathFromUrlObj(url, urlObj) ==
    IF urlObj.throws THEN NullPathInfo
    ELSE IF ~isQpicDomain(url) THEN NullPathInfo
    ELSE R2PathFromParts(urlObj, SubSeq(urlObj.pathname, 2, Len(urlObj.pathname)))

\* a derivation that avoids the key of an object the bucket already holds
generateR2PathVersioned(url) ==
    IF R2PathFromUrlObj(url, URL(url)).isNull THEN NullPathInfo
    ELSE IF SubSeq(R2PathFromUrlObj(url, URL(url)).path, 2,
                   Len(R2PathFromUrlObj(url, URL(url)).path)) \in DOMAIN store
    THEN [R2PathFromUrlObj(url, URL(url)) EXCEPT !.path = "/v2" \o @]
    ELSE R2PathFromUrlObj(url, URL(url))

generateR2PathFromUrl(url) == R2PathFromUrlObj(url, URL(url))

\* a query class that does not stop at "&"
QueryStopWithoutAmp == Whitespace \cup {"\"", "'", "<", ">", ")", "]"}

\* the regular expression of extractWechatImageUrls, flags gi:
\*   https?:\/\/mmbiz\.q(?:pic|logo)\.cn\/[^?\s"'<>)\]]+(?:\?[^&\s"'<>)\]]+)?
PathStop == Whitespace \cup {"?", "\"", "'", "<", ">", ")", "]"}
QueryStop == Whitespace \cup {"&", "\"", "'", "<", ">", ")", "]"}

\* the position after https?:\/\/ matched at i, 0 if it does not match
AfterScheme(s, i) ==
    IF StartsWithAtI(s, i, "https://") THEN i + 8 ELSE AfterLiteralI(s, i, "http://")

\* the position after (?:pic|logo) matched at b, 0 if b = 0 or no match
AfterPicOrLogo(s, b) ==
    IF b > 0 /\ StartsWithAtI(s, b, "pic") THEN b + 3 ELSE AfterLiteralI(s, b, "logo")

\* the position after "http(s)://mmbiz.q(pic|logo).cn/" matched at i, 0 if
\* it does not match there
ImageHostEnd(s, i) ==
    AfterLiteralI(s, AfterPicOrLogo(s, AfterLiteralI(s, AfterScheme(s, i), "mmbiz.q")), ".cn/")

\* (?:\?[^&...]+)? after a path that ended before position k; m is where the
\* query class stops
MatchEndFromQuery(s, k, m) == IF At(s, k) = "?" /\ m > k + 1 THEN m ELSE k

\* [^?...]+ from position p on, which stops at k: at least one character
MatchEndFromPath(s, p, k) ==
    IF k = p THEN 0 ELSE MatchEndFromQuery(s, k, SkipWhileNot(s, k + 1, QueryStop))

MatchEndFromHost(s, p) ==
    IF p = 0 THEN 0 ELSE MatchEndFromPath(s, p, SkipWhileNot(s, p, PathStop))

\* the position after the match of the regular expression at i, 0 if none
WechatImageMatchEnd(s, i) == MatchEndFromHost(s, ImageHostEnd(s, i))

\* s.match(regex) || [] with the g flag: the matches from position i on,
\* left to right, not overlapping; ends[k] is WechatImageMatchEnd(s, k)
RECURSIVE MatchAllFrom(_, _, _)
MatchAllAt(s, ends, j) ==
    IF j = 0 THEN <<>> ELSE <<SubSeq(s, j, ends[j] - 1)>> \o MatchAllFrom(s, ends, ends[j])

MatchAllFrom(s, ends, i) ==
    MatchAllAt(s, ends, FirstOr({k \in i..Len(s) : ends[k] > 0}, 0))

MatchAll(s) == MatchAllFrom(s, [k \in 1..Len(s) |-> WechatImageMatchEnd(s, k)], 1)

\* [...new Set(seq)]: the first occurrence of each element, in order
Dedup(seq) ==
    LET keep == {i \in 1..Len(seq) : \A j \in 1..(i - 1) : seq[j] # seq[i]}
        Rank(i) == Cardinality({j \in keep : j <= i})
    IN  [n \in 1..Cardinality(keep) |-> seq[CHOOSE i \in keep : Rank(i) = n]]

\* url.replace(/[,.)\]]+$/, '')
RECURSIVE TrimTrailingPunctuation(_)
TrimTrailingPunctuation(url) ==
    IF url # "" /\ At(url, Len(url)) \in {",", ".", ")", "]"}
    THEN TrimTrailingPunctuation(SubSeq(url, 1, Len(url) - 1))
    ELSE url

TrimAll(allUrls) == [i \in 1..Len(allUrls) |-> TrimTrailingPunctuation(allUrls[i])]

extractWechatImageUrls(h, md) == TrimAll(Dedup(MatchAll(h) \o MatchAll(md)))

\* an escape that leaves the brackets alone
EscapedWithoutBrackets == {".", "*", "+", "?", "^", "$", "{", "}", "|", "\\"}

\* originalUrl.replace(/[.*+?^${}()|[\]\\]/g, '\\$&'): the characters it escapes
EscapedChars == {".", "*", "+", "?", "^", "$", "{", "}", "(", ")", "|", "[", "]", "\\"}

\* new RegExp(pattern) throws a SyntaxError on a group or a class that is
\* opened and not closed; an extracted reference holds no ")" and no "]",
\* so an unescaped "(" or "[" of it is one
RegExpThrows(url) == \E k \in 1..Len(url) : At(url, k) \in {"(", "["} \ EscapedChars

\* escapedUrl.replace(/&/g, '&amp;'): escaping for the RegExp constructor
\* leaves a pattern that matches the URL literally, so the pattern's literal
\* part is the URL with each & written &amp;
AmpToEntity(s) == ReplaceAllFrom(s, 1, "&", "&amp;")

\* [^)\s"'<>\]] of the two patterns of replaceImageUrlsSync
ParamStop == Whitespace \cup {")", "\"", "'", "<", ">", "]"}

\* (?:amp[^)\s"'<>\]]+)* from position j on: the position after it. The class
\* also takes the separator, so one iteration runs to the next stop character
ParamsEnd(s, j, amp) ==
    IF StartsWithAt(s, j, amp) /\ j + Len(amp) <= Len(s) /\ At(s, j + Len(amp)) \notin ParamStop
    THEN SkipWhileNot(s, j + Len(amp), ParamStop)
    ELSE j

\* String.prototype.replace expands the patterns of a replacement string:
\* $$ is a "$", $& the match, $` the text before the match, $' the text
\* after it. The patterns of the rewriter have no capture group, so "$"
\* before anything else stays as it is. From position i of newUrl on
RECURSIVE ExpandFrom(_, _, _, _, _)
ExpandAt(newUrl, i, k, matched, before, after) ==
    IF k = 0 THEN SubSeq(newUrl, i, Len(newUrl))
    ELSE SubSeq(newUrl, i, k - 1)
         \o (IF At(newUrl, k + 1) = "$"
             THEN "$" \o ExpandFrom(newUrl, k + 2, matched, before, after)
             ELSE IF At(newUrl, k + 1) = "&"
             THEN matched \o ExpandFrom(newUrl, k + 2, matched, before, after)
             ELSE IF At(newUrl, k + 1) = "`"
             THEN before \o ExpandFrom(newUrl, k + 2, matched, before, after)
             ELSE IF At(newUrl, k + 1) = "'"
             THEN after \o ExpandFrom(newUrl, k + 2, matched, before, after)
             ELSE "$" \o ExpandFrom(newUrl, k + 1, matched, before, after))

ExpandFrom(newUrl, i, matched, before, after) ==
    ExpandAt(newUrl, i, IndexOf(newUrl, "$", i), matched, before, after)

\* what replace writes for the match s[j..e-1]
Replacement(s, j, e, newUrl) ==
    IF IndexOf(newUrl, "$", 1) = 0 THEN newUrl
    ELSE ExpandFrom(newUrl, 1, SubSeq(s, j, e - 1), SubSeq(s, 1, j - 1), SubSeq(s, e, Len(s)))

\* s.replace(new RegExp(literal + '(?:' + amp + '[^)\s"\'<>\]]+)*', 'g'), newUrl)
\* from position i on
RECURSIVE ReplaceFrom(_, _, _, _, _)
ReplaceAt(s, i, j, literal, amp, newUrl) ==
    IF j = 0 THEN SubSeq(s, i, Len(s))
    ELSE SubSeq(s, i, j - 1)
         \o Replacement(s, j, ParamsEnd(s, j + Len(literal), amp), newUrl)
         \o ReplaceFrom(s, ParamsEnd(s, j + Len(literal), amp), literal, amp, newUrl)

ReplaceFrom(s, i, literal, amp, newUrl) ==
    ReplaceAt(s, i, IndexOf(s, literal, i), literal, amp, newUrl)

\* the two replacements of one iteration: the entity-escaped form first
ReplaceBoth(res, url, newUrl) ==
    ReplaceFrom(ReplaceFrom(res, 1, AmpToEntity(url), "&amp;", newUrl), 1, url, "&", newUrl)

\* one iteration of the loop of replaceImageUrlsSync
ReplaceWith(res, url, info, e) ==
    IF info.isNull THEN res ELSE ReplaceBoth(res, url, e.R2_PUBLIC_URL \o info.path)

\* a rewriter that rewrites only the references the bucket already holds
ReplaceOneIfStored(res, url, e) ==
    IF generateR2PathFromUrl(url).isNull THEN res
    ELSE IF SubSeq(generateR2PathFromUrl(url).path, 2, Len(generateR2PathFromUrl(url).path))
                \in DOMAIN store
    THEN ReplaceWith(res, url, generateR2PathFromUrl(url), e)
    ELSE res

ReplaceOne(res, url, e) == ReplaceWith(res, url, generateR2PathFromUrl(url), e)

RECURSIVE ReplaceLoop(_, _, _, _)
ReplaceLoop(res, urls, k, e) ==
    IF k > Len(urls) THEN res
    ELSE ReplaceLoop(ReplaceOne(res, urls[k], e), urls, k + 1, e)

\* the functions without their configuration check
R2ConfigUnchecked(e) == TRUE

R2Configured(e) == e.IMAGES_BUCKET /\ e.R2_PUBLIC_URL # ""

ReplaceExtracted(md, urls, e) == IF Len(urls) = 0 THEN md ELSE ReplaceLoop(md, urls, 1, e)

\* replaceImageUrlsSync has no try/catch: it throws when new RegExp does
replaceThrows(h, md, e) ==
    /\ R2Configured(e)
    /\ \E k \in 1..Len(extractWechatImageUrls(h, md)) :
            /\ ~generateR2PathFromUrl(extractWechatImageUrls(h, md)[k]).isNull
            /\ RegExpThrows(extractWechatImageUrls(h, md)[k])

replaceImageUrlsSync(h, md, e) ==
    IF ~R2Configured(e) THEN md ELSE ReplaceExtracted(md, extractWechatImageUrls(h, md), e)

----------------------------------------------------------------------------
(* src/src/index.ts: the routing of the fetch handler.  A route says what  *)
(* the handler answers itself (status, kind) or which function it calls,   *)
(* for which article or page and in which mode.                            *)

WECHAT_URL_PREFIX == "https://mp.weixin.qq.com/"

endsWith(s, lit) == Len(s) >= Len(lit) /\ SubSeq(s, Len(s) - Len(lit) + 1, Len(s)) = lit

NoRoute ==
    [status |-> 0, kind |-> "none", calls |-> "none", isHtmlMode |-> FALSE,
     articleId |-> "", url |-> ""]

\* return new Response(..., {status})
Answer(status, kind) == [NoRoute EXCEPT !.status = status, !.kind = kind]

\* return await handleGenericWebpage(...) or convertWebpageToMarkdown(...)
Delegate(calls, isHtmlMode, articleId, url) ==
    [status |-> 0, kind |-> "delegated", calls |-> calls, isHtmlMode |-> isHtmlMode,
     articleId |-> articleId, url |-> url]

\* a legacy route that keeps the suffix in the article id
KeepSuffix(articleId) == articleId

\* articleId.slice(0, -5)
SliceSuffix(articleId) == SubSeq(articleId, 1, Len(articleId) - 5)

\* the old form /s/{id}.html
LegacyArticle(articleId) ==
    IF endsWith(articleId, ".html")
    THEN [matched |-> TRUE, isHtmlMode |-> TRUE, articleId |-> SliceSuffix(articleId)]
    ELSE [matched |-> TRUE, isHtmlMode |-> FALSE, articleId |-> articleId]

ArticleOf(path) ==
    IF StartsWithAt(path, 1, "/html/s/")
    THEN [matched |-> TRUE, isHtmlMode |-> TRUE, articleId |-> SubSeq(path, 9, Len(path))]
    ELSE IF StartsWithAt(path, 1, "/s/")
    THEN LegacyArticle(SubSeq(path, 4, Len(path)))
    ELSE [matched |-> FALSE, isHtmlMode |-> FALSE, articleId |-> ""]

ConvertArticle(a) ==
    IF ~a.matched THEN Answer(400, "badPath")
    ELSE IF a.articleId = "" THEN Answer(400, "noId")
    ELSE Delegate("convertWebpageToMarkdown", a.isHtmlMode, a.articleId,
                  WECHAT_URL_PREFIX \o "s/" \o a.articleId)

fetch(path, format) ==
    IF path = "/health" \/ path = "/healthz" THEN Answer(200, "health")
    ELSE IF path = "/" \/ path = "" THEN Answer(200, "home")
    ELSE IF path = "/html/md" THEN Delegate("handleGenericWebpage", TRUE, "", "")
    ELSE IF path = "/md" THEN Delegate("handleGenericWebpage", format = "html", "", "")
    ELSE ConvertArticle(ArticleOf(path))

----------------------------------------------------------------------------
(* Sample inputs *)

PathSamples ==
    { "/health", "/healthz", "/", "/md", "/html/md", "/s/abc", "/html/s/abc",
      "/s/abc.html", "/s/", "/s/.html", "/html/s/", "/html/s/abc.html", "/foo",
      "/health/", "/html", "/S/abc", "/mdx", "/html/md/" }

\* url.searchParams.get('format'): "" stands for a missing parameter
FormatSamples == {"", "html", "md"}


U1 == "https://mmbiz.qpic.cn/a/1"
UDollar == "https://mmbiz.qpic.cn/a/$&"
U12 == "https://mmbiz.qpic.cn/a/12"
Base == "https://img.example.com"

\* the arguments of the sample invocations of uploadImagesToR2Async
ULogo == "https://mmbiz.qlogo.cn/a/0"
UHttp == "http://mmbiz.qpic.cn/a/1"
U2 == "https://mmbiz.qpic.cn/a/2"
U3 == "https://mmbiz.qpic.cn/a/3"
U4 == "https://mmbiz.qpic.cn/a/4"
U5 == "https://mmbiz.qpic.cn/a/5"

Img(url) == "<img src=\"" \o url \o "\">"

UploadSamples ==
    { [html |-> "<p>x</p>", markdown |-> "no image"],
      [html |-> Img(U1), markdown |-> "![](" \o U1 \o ")"],
      [html |-> Img(ULogo), markdown |-> "no image"],
      [html |-> Img(UHttp), markdown |-> "![](" \o U1 \o ")"],
      [html |-> Img(ULogo) \o Img(U1) \o Img(U2) \o Img(U3) \o Img(U4) \o Img(U5),
       markdown |-> "![](" \o U1 \o ")"] }

EnvConfigured == [IMAGES_BUCKET |-> TRUE, R2_PUBLIC_URL |-> Base]
EnvNoBucket == [IMAGES_BUCKET |-> FALSE, R2_PUBLIC_URL |-> Base]
EnvNoPublicUrl == [IMAGES_BUCKET |-> TRUE, R2_PUBLIC_URL |-> ""]
EnvSamples == {EnvConfigured, EnvNoBucket, EnvNoPublicUrl}

HtmlSamples ==
    { "<p>x</p>",
      "<img src=\"" \o U1 \o "\">",
      "<img src=\"" \o U1 \o "?wx_fmt=png&amp;from=appmsg\">" }

MarkdownSamples ==
    { "no image",
      "![](" \o U1 \o ")",
      "![](" \o U1 \o ") ![](" \o U1 \o ")",
      "![](" \o U1 \o ") ![](" \o U12 \o ")",
      "![](" \o U1 \o "?wx_fmt=png)",
      "![](" \o U1 \o "?wx_fmt=png&amp;from=appmsg&amp;tp=webp)",
      "![](" \o U1 \o "?wx_fmt=png&from=appmsg)",
      "![](https://cdn.example.com/x.png) ![](" \o U1 \o ")",
      "[p](https://proxy.example.com/f?u=" \o U1 \o ")",
      "see " \o U1 \o ". and ![](" \o U1 \o ")",
      "![](https://mmbiz.qpic.cn/a/(1[*+)",
      "![](" \o UDollar \o ")",
      "![](https://mmbiz.qlogo.cn/a/0)",
      "![](HTTPS://MMBIZ.QPIC.CN/a/1)",
      "![](" \o U1 \o ") [v](https://mmbiz.qpic.cn/v?u=" \o U1 \o ")" }

UrlSamples ==
    { U1,
      U1 \o "?wx_fmt=png&from=appmsg",
      "https://mmbiz.qpic.cn/sz_mmbiz_png/abc123/640?wx_fmt=png",
      "http://mmbiz.qpic.cn/mmbiz_gif/x/0?wx_fmt=jpeg",
      "https://mmbiz.qpic.cn/mmbiz_png/x/0?wx_fmt=webp",
      "https://mmbiz.qpic.cn/mmbiz_png/x/0?wx_fmt=",
      "https://mmbiz.qpic.cn/mmbiz_gif/x_png/0",
      "https://mmbiz.qpic.cn/mmbiz_gif/x/0?from=appmsg",
      "https://mmbiz.qpic.cn/mmbiz_jpg/x/0",
      "https://mmbiz.qpic.cn/sz_mmbiz_jpeg/x/0",
      "https://mmbiz.qlogo.cn/a/1",
      "https://cdn.example.com/x.png",
      "https://evil.example/qpic.cn/x",
      "https://proxy.example.com/f?u=" \o U1,
      "https://mmbiz.qpic.cn.evil.example/a/1",
      "HTTPS://MMBIZ.QPIC.CN/a/1",
      "not a url",
      "https://",
      "mmbiz.qpic.cn/a/1" }

----------------------------------------------------------------------------
(* src/unnamed/part_000: uploadImagesToR2Async, and the R2 bucket it uses. *)
(* A task is one invocation: its promise (status), the extracted list      *)
(* (urls), per listed reference where its callback stands (ref), and the   *)
(* batch of the loop that is in flight (chunk).                            *)

NumRequests == 2
Requests == 1..NumRequests

CONCURRENCY_LIMIT == 5

\* where the callback of one reference stands:
\*   queued       its batch has not been started
\*   skipped      generateR2PathFromUrl gave null: returned {skipped: true}
\*   head         awaiting env.IMAGES_BUCKET.head(r2Key)
\*   exists       head found the object: returned {skipped: true}
\*   headThrew    head threw: the callback's promise rejected
\*   fetch        awaiting downloadWechatImage(originalUrl)
\*   fetchFailed  the download gave null: returned {success: false}
\*   put          awaiting env.IMAGES_BUCKET.put(r2Key, ...)
\*   stored       put resolved: returned {success: true}
\*   putThrew     put threw: the callback's promise rejected
SettledPhases == {"skipped", "exists", "headThrew", "fetchFailed", "stored", "putThrew"}
RejectedPhases == {"headThrew", "putThrew"}

\* the phases in which an operation is awaited; entering one issues it
PendingPhases == {"head", "fetch", "put"}

NoTask == [status |-> "none", urls |-> <<>>, ref |-> <<>>, chunk |-> 0, after |-> {}]

\* Date.prototype.toISOString for a time t >= 0 in ms since the epoch:
\* YYYY-MM-DDTHH:mm:ss.sssZ, the date by the proleptic Gregorian calendar
MsPerDay == 86400000

Pad2(n) == IF n < 10 THEN "0" \o ToString(n) ELSE ToString(n)

Pad3(n) == IF n < 100 THEN "0" \o Pad2(n) ELSE ToString(n)

Pad4(n) == IF n < 1000 THEN "0" \o Pad3(n) ELSE ToString(n)

\* year, month and day of the day that lies z days after 0000-03-01
CivilOfYear(era, doe, yoe) ==
    LET doy == doe - (365 * yoe + yoe \div 4 - yoe \div 100)
        mp  == (5 * doy + 2) \div 153
        m   == IF mp < 10 THEN mp + 3 ELSE mp - 9
    IN  [year  |-> yoe + era * 400 + (IF m <= 2 THEN 1 ELSE 0),
         month |-> m,
         day   |-> doy - (153 * mp + 2) \div 5 + 1]

CivilOfEra(era, doe) ==
    CivilOfYear(era, doe,
                (doe - doe \div 1460 + doe \div 36524 - doe \div 146096) \div 365)

CivilFromDays(days) ==
    CivilOfEra((days + 719468) \div 146097, (days + 719468) % 146097)

TimeOfDay(ms) ==
    Pad2(ms \div 3600000) \o ":" \o Pad2((ms \div 60000) % 60) \o ":"
    \o Pad2((ms \div 1000) % 60) \o "." \o Pad3(ms % 1000)

DateOf(civil) ==
    Pad4(civil.year) \o "-" \o Pad2(civil.month) \o "-" \o Pad2(civil.day)

toISOString(t) ==
    DateOf(CivilFromDays(t \div MsPerDay)) \o "T" \o TimeOfDay(t % MsPerDay) \o "Z"

\* an expiry computed in seconds
ExpiresAtSeconds(t) == t + 8 * 60 * 60

\* new Date(Date.now() + 8 * 60 * 60 * 1000), for Date.now() = t
ExpiresAt(t) == t + 8 * 60 * 60 * 1000

CACHE_CONTROL == "public, max-age=28800"

\* the options of a put: httpMetadata.cacheControl and the customMetadata
\* (the bytes and the content type of the image are not modelled)
NoOptions == [cacheControl |-> "", expiresAt |-> "", originalUrl |-> ""]

PutOptions(url, t) ==
    [cacheControl |-> CACHE_CONTROL,
     expiresAt    |-> toISOString(ExpiresAt(t)),
     originalUrl  |-> url]

\* the callback that has reached the put calls it with the options of time t
CallPut(ref, url, t) ==
    IF ref.phase = "put" THEN [ref EXCEPT !.options = PutOptions(url, t)] ELSE ref

\* r2PathInfo.path.substring(1)
KeyOfPath(path) == SubSeq(path, 2, Len(path))

r2Key(url) == KeyOfPath(generateR2PathFromUrl(url).path)

\* the callback of chunk.map up to its first await, for the path derived
CallbackFor(info) ==
    IF info.isNull
    THEN [phase |-> "skipped", fetch |-> "none", r2Key |-> "", ops |-> <<>>,
          options |-> NoOptions]
    ELSE [phase |-> "head", fetch |-> "none", r2Key |-> KeyOfPath(info.path),
          ops |-> <<"head">>, options |-> NoOptions]

\* the references of the sample invocations, as extractWechatImageUrls returns
\* them, and the callback started for each
SampleReferences ==
    UNION { { extractWechatImageUrls(in.html, in.markdown)[i] :
                i \in 1..Len(extractWechatImageUrls(in.html, in.markdown)) } :
            in \in UploadSamples }

KnownCallbacks == [u \in SampleReferences |-> CallbackFor(generateR2PathFromUrl(u))]

\* the callback started for a reference
StartCallback(url) ==
    IF url \in DOMAIN KnownCallbacks THEN KnownCallbacks[url]
    ELSE CallbackFor(generateR2PathFromUrl(url))

\* imageUrls.slice(i, i + CONCURRENCY_LIMIT) for the k-th batch: its indices
ChunkIndices(n, k) ==
    {i \in 1..n : (k - 1) * CONCURRENCY_LIMIT < i /\ i <= k * CONCURRENCY_LIMIT}

\* Promise.allSettled over all the references at once
StartUnbatched(urls, ref, k) ==
    [i \in 1..Len(urls) |->
        IF ref[i].phase = "queued" THEN StartCallback(urls[i]) ELSE ref[i]]

\* the for loop entering batch k: the callbacks of the batch are started
StartChunk(urls, ref, k) ==
    [i \in 1..Len(urls) |->
        IF i \in ChunkIndices(Len(urls), k) THEN StartCallback(urls[i]) ELSE ref[i]]

Queued(urls) ==
    [i \in 1..Len(urls) |->
        [phase |-> "queued", fetch |-> "none", r2Key |-> "", ops |-> <<>>, options |-> NoOptions]]

\* uploadImagesToR2Async up to its first await; finished says which
\* invocations had completed before
StartUpload(urls, e, finished) ==
    IF ~R2Configured(e) \/ Len(urls) = 0
    THEN [status |-> "resolved", urls |-> <<>>, ref |-> <<>>, chunk |-> 0, after |-> finished]
    ELSE [status |-> "running", urls |-> urls, ref |-> StartChunk(urls, Queued(urls), 1),
          chunk |-> 1, after |-> finished]

uploadImagesToR2Async(h, md, e, finished) ==
    StartUpload(IF R2Configured(e) THEN extractWechatImageUrls(h, md) ELSE <<>>, e, finished)

\* a callback that ignores what head answered
AfterHeadIgnored(existing) == "fetch"

\* if (existing) return {skipped}; else downloadWechatImage(originalUrl)
AfterHead(existing) == IF existing THEN "exists" ELSE "fetch"

\* a download without the response.ok check
downloadUnchecked(outcome) == IF outcome = "throw" THEN "null" ELSE "data"

\* downloadWechatImage: what it returns for each outcome of fetch(url)
\*   ok      a 2xx response whose body was read
\*   status  a response with !response.ok
\*   throw   fetch or arrayBuffer threw (caught, logged)
downloadWechatImage(outcome) == IF outcome = "ok" THEN "data" ELSE "null"

\* if (!imageData) return {success: false}; else put(r2Key, imageData.data, ...)
AfterDownload(imageData) == IF imageData = "null" THEN "fetchFailed" ELSE "put"

\* Promise.all outside a try/catch: the first rejected callback rejects
AwaitAllUncaught(results) ==
    IF \E i \in DOMAIN results : results[i] = "rejected" THEN "rejected" ELSE "next"

\* await Promise.allSettled(...) inside the function's try/catch, for the
\* callbacks' results ("fulfilled" or "rejected"): the loop goes on ("next");
\* "caught" would leave the loop through the catch, "rejected" would reject
\* the function's promise
AwaitChunk(results) == "next"

ChunkResults(t) ==
    [i \in ChunkIndices(Len(t.urls), t.chunk) |->
        IF t.ref[i].phase \in RejectedPhases THEN "rejected" ELSE "fulfilled"]

\* a loop whose promise stays pending after a batch in which a callback
\* rejected
AfterChunkStalled(t, joined) ==
    IF \E i \in ChunkIndices(Len(t.urls), t.chunk) : t.ref[i].phase \in RejectedPhases
    THEN t
    ELSE IF t.chunk * CONCURRENCY_LIMIT >= Len(t.urls)
    THEN [t EXCEPT !.status = "resolved"]
    ELSE [t EXCEPT !.chunk = t.chunk + 1, !.ref = StartChunk(t.urls, t.ref, t.chunk + 1)]

\* the loop after the await of batch t.chunk
AfterChunk(t, joined) ==
    IF joined = "rejected" THEN [t EXCEPT !.status = "rejected"]
    ELSE IF joined = "caught" \/ t.chunk * CONCURRENCY_LIMIT >= Len(t.urls)
    THEN [t EXCEPT !.status = "resolved"]
    ELSE [t EXCEPT !.chunk = t.chunk + 1, !.ref = StartChunk(t.urls, t.ref, t.chunk + 1)]

\* a callback that issues the operation again when it throws
RetryOnThrow(phase) == phase

\* head or put throws: the callback has no try/catch, its promise rejects
OnThrow(phase) == IF phase = "head" THEN "headThrew" ELSE "putThrew"

\* the callback of a reference goes on to phase ph; ops lists the operations
\* it has issued
Advance(ref, ph) ==
    [ref EXCEPT !.phase = ph,
                !.ops = IF ph \in PendingPhases THEN Append(@, ph) ELSE @]

\* a handler that awaits between ctx.waitUntil and its return
EventLoopYielding == TRUE

\* no request handler is inside a synchronous section: JavaScript runs each
\* continuation to its next await before any other callback runs
EventLoopFree == \A q \in Requests : pc[q] # "returning"

\* a head that answers from a bucket without objects
headOfEmptyBucket(b, key) == FALSE

\* env.IMAGES_BUCKET.head(r2Key): whether the bucket holds an object under
\* the key when the head is answered
head(b, key) == key \in DOMAIN b

HeadSettles(r, i, outcome) ==
    /\ EventLoopFree
    /\ i \in 1..Len(task[r].urls)
    /\ task[r].ref[i].phase = "head"
    /\ task' = [task EXCEPT ![r].ref[i] =
                    Advance(@, IF outcome = "throw" THEN OnThrow("head")
                               ELSE AfterHead(head(store, task[r].ref[i].r2Key)))]
    /\ UNCHANGED <<textVars, retry, now, env, store, pc, page, response>>

FetchSettles(r, i, outcome) ==
    /\ EventLoopFree
    /\ i \in 1..Len(task[r].urls)
    /\ task[r].ref[i].phase = "fetch"
    /\ task' = [task EXCEPT ![r].ref[i] =
                    CallPut(Advance([@ EXCEPT !.fetch = outcome],
                                    AfterDownload(downloadWechatImage(outcome))),
                            task[r].urls[i], now)]
    /\ UNCHANGED <<textVars, retry, now, env, store, pc, page, response>>

\* the object a successful put leaves under its key: its options
PutObject(b, key, options) ==
    [k \in DOMAIN b \cup {key} |-> IF k = key THEN options ELSE b[k]]

PutSettles(r, i, outcome) ==
    /\ EventLoopFree
    /\ i \in 1..Len(task[r].urls)
    /\ task[r].ref[i].phase = "put"
    /\ task' = [task EXCEPT ![r].ref[i] =
                    Advance(@, IF outcome = "ok" THEN "stored" ELSE OnThrow("put"))]
    /\ store' = IF outcome = "ok"
                THEN PutObject(store, task[r].ref[i].r2Key, task[r].ref[i].options)
                ELSE store
    /\ UNCHANGED <<textVars, retry, now, env, pc, page, response>>

ChunkSettles(r) ==
    /\ EventLoopFree
    /\ task[r].status = "running"
    /\ \A i \in ChunkIndices(Len(task[r].urls), task[r].chunk) :
            task[r].ref[i].phase \in SettledPhases
    /\ task' = [task EXCEPT ![r] = AfterChunk(task[r], AwaitChunk(ChunkResults(task[r])))]
    /\ UNCHANGED <<textVars, retry, now, env, store, pc, page, response>>

Worker(r) ==
    \/ \E i \in 1..Len(task[r].urls), o \in {"answer", "throw"} : HeadSettles(r, i, o)
    \/ \E i \in 1..Len(task[r].urls), o \in {"ok", "status", "throw"} : FetchSettles(r, i, o)
    \/ \E i \in 1..Len(task[r].urls), o \in {"ok", "throw"} : PutSettles(r, i, o)
    \/ ChunkSettles(r)

----------------------------------------------------------------------------
(* src/src/converter.ts: convertWebpageToMarkdown *)

\* a Response: its status and body, and the return statement it came from
\*   upstream  the page answered with a status that is not ok (lines 28-34)
\*   empty     the conversion gave no result or no data (lines 54-68)
\*   catch     a step threw (lines 96-103)
\*   ok        the rewritten document (lines 78-95)
Respond(status, body, via) == [status |-> status, body |-> body, via |-> via]

NoResponse == Respond(0, "", "none")

\* what the handler returns when fetchWithRetry has settled, if it returns
UpstreamResponse(outcome) ==
    IF outcome = "ok" THEN NoResponse
    ELSE IF outcome = "status" THEN Respond(502, "", "upstream")
    ELSE Respond(500, "", "catch")

\* what the handler returns when env.AI.toMarkdown has settled, if it returns
ConversionResponse(outcome) ==
    IF outcome = "data" THEN NoResponse
    ELSE IF outcome = "empty" THEN Respond(500, "", "empty")
    ELSE Respond(500, "", "catch")

\* a handler that hands the upload to ctx.waitUntil before it looks at the
\* result of the conversion
RegisterAlways(outcome, t) == t

\* ctx.waitUntil(uploadImagesToR2Async(...)) is reached with data only
RegisterTask(outcome, t) == IF outcome = "data" THEN t ELSE NoTask

\* the pages a request can ask for: the markup after preprocessHtml and the
\* document env.AI.toMarkdown makes of it
Pages ==
    << [html |-> "<p>x</p>", markdown |-> "no image"],
       [html |-> "<img src=\"" \o U1 \o "?wx_fmt=png&amp;from=appmsg\">",
        markdown |-> "![](" \o U1 \o "?wx_fmt=png&amp;from=appmsg)"],
       [html |-> "<img src=\"" \o U1 \o "\">", markdown |-> "no image"],
       [html |-> "<p>x</p>", markdown |-> "![](" \o U1 \o ")"] >>

InitPipe ==
    /\ store = <<>>
    /\ pc = [r \in Requests |-> "idle"]
    /\ page = [r \in Requests |-> 0]
    /\ response = [r \in Requests |-> NoResponse]
    /\ task = [r \in Requests |-> NoTask]
    /\ now = 0

\* the handler is entered and awaits fetchWithRetry(url)
Receive(r, p) ==
    /\ EventLoopFree
    /\ pc[r] = "idle"
    /\ pc' = [pc EXCEPT ![r] = "fetching"]
    /\ page' = [page EXCEPT ![r] = p]
    /\ UNCHANGED <<textVars, retry, now, env, store, response, task>>

\* fetchWithRetry settles: a response that is ok, one that is not, or a throw
PageFetched(r, outcome) ==
    /\ EventLoopFree
    /\ pc[r] = "fetching"
    /\ pc' = [pc EXCEPT ![r] = IF outcome = "ok" THEN "converting" ELSE "responded"]
    /\ response' = [response EXCEPT ![r] = UpstreamResponse(outcome)]
    /\ UNCHANGED <<textVars, retry, now, env, store, page, task>>

FinishedTasks == {q \in Requests : task[q].status = "resolved"}

\* replaceImageUrlsSync(processedHtml, markdownContent, env), for each page
\* and each environment
PageRewritten ==
    [e \in EnvSamples |->
        [p \in 1..Len(Pages) |-> replaceImageUrlsSync(Pages[p].html, Pages[p].markdown, e)]]

\* uploadImagesToR2Async(processedHtml, markdownContent, env) up to its first
\* await, for each page and each environment
PageUpload ==
    [e \in EnvSamples |->
        [p \in 1..Len(Pages) |->
            uploadImagesToR2Async(Pages[p].html, PageRewritten[e][p], e, {})]]

\* markdownContent after line 72
Rewritten(r) == PageRewritten[env][page[r]]

\* a handler that stores the first image of the page while it rewrites the
\* document, before it responds
ConvertedStoring(r, outcome) ==
    /\ EventLoopFree
    /\ pc[r] = "converting"
    /\ pc' = [pc EXCEPT ![r] = IF outcome = "data" THEN "returning" ELSE "responded"]
    /\ response' = [response EXCEPT ![r] = ConversionResponse(outcome)]
    /\ task' = [task EXCEPT ![r] =
                    RegisterTask(outcome,
                                 [PageUpload[env][page[r]] EXCEPT !.after = FinishedTasks])]
    /\ store' = IF outcome = "data" /\ Len(PageUpload[env][page[r]].urls) > 0
                THEN PutObject(store, PageUpload[env][page[r]].ref[1].r2Key,
                               PutOptions(PageUpload[env][page[r]].urls[1], now))
                ELSE store
    /\ UNCHANGED <<textVars, retry, now, env, page>>

\* env.AI.toMarkdown settles: a result with data, none, or a throw. With data
\* the handler rewrites the document and hands the upload to ctx.waitUntil
Converted(r, outcome) ==
    /\ EventLoopFree
    /\ pc[r] = "converting"
    /\ pc' = [pc EXCEPT ![r] = IF outcome = "data" THEN "returning" ELSE "responded"]
    /\ response' = [response EXCEPT ![r] = ConversionResponse(outcome)]
    /\ task' = [task EXCEPT ![r] =
                    RegisterTask(outcome,
                                 [PageUpload[env][page[r]] EXCEPT !.after = FinishedTasks])]
    /\ UNCHANGED <<textVars, retry, now, env, store, page>>

\* from ctx.waitUntil to the return of the Response there is no await
Return(r) ==
    /\ pc[r] = "returning"
    /\ pc' = [pc EXCEPT ![r] = "responded"]
    /\ response' = [response EXCEPT ![r] = Respond(200, Rewritten(r), "ok")]
    /\ UNCHANGED <<textVars, retry, now, env, store, page, task>>

Handler(r) ==
    \/ \E p \in 1..Len(Pages) : Receive(r, p)
    \/ \E o \in {"ok", "status", "throw"} : PageFetched(r, o)
    \/ \E o \in {"data", "empty", "throw"} : Converted(r, o)
    \/ Return(r)

----------------------------------------------------------------------------
(* src/src/utils.ts: fetchWithRetry.  retry is one call of it: where it    *)
(* stands (pc), its arguments, the loop counter i, the delay of the next   *)
(* wait, the outcomes of the attempts made, the delays waited, and what it *)
(* returned or threw.  A delay is a fraction num/den of milliseconds, so   *)
(* that delay *= 1.5 is exact, as it is for the doubles of these sizes.    *)

MaxRetries == 4

RETRIES_DEFAULT == 3
DELAY_DEFAULT == 1000

Ms(n) == [num |-> n, den |-> 1]

\* delay *= 1.5
TimesOneAndAHalf(d) == [num |-> d.num * 3, den |-> d.den * 2]

NotThrown == [kind |-> "none", attempt |-> 0]

NoCall ==
    [pc |-> "idle", url |-> "", retries |-> 0, first |-> Ms(0), referer |-> "",
     i |-> 0, delay |-> Ms(0), attempts |-> <<>>, waits |-> <<>>,
     value |-> "none", thrown |-> NotThrown]

\* urlObj.protocol of a URL that new URL accepts
UrlProtocol(url) == toLowerCase(SubSeq(url, 1, SchemeEnd(url) - 3))

\* `${urlObj.protocol}//${urlObj.hostname}`
defaultReferer(url) == UrlProtocol(url) \o "//" \o URL(url).hostname

\* customReferer || defaultReferer ("" stands for a missing argument)
Referer(url, customReferer) ==
    IF customReferer # "" THEN customReferer ELSE defaultReferer(url)

\* the head of the for loop: i < retries enters the body, which calls fetch;
\* otherwise the statement after the loop throws new Error
EnterLoop(c) ==
    IF c.i < c.retries THEN [c EXCEPT !.pc = "fetching"]
    ELSE [c EXCEPT !.pc = "threw", !.thrown = [kind |-> "Error", attempt |-> 0]]

\* fetchWithRetry up to its first await; new URL(url) throws a TypeError
fetchWithRetry(url, retries, delay, customReferer) ==
    IF URL(url).throws
    THEN [NoCall EXCEPT !.pc = "threw", !.url = url, !.retries = retries,
                        !.first = Ms(delay), !.delay = Ms(delay),
                        !.thrown = [kind |-> "TypeError", attempt |-> 0]]
    ELSE EnterLoop([NoCall EXCEPT !.url = url, !.retries = retries,
                                  !.first = Ms(delay), !.delay = Ms(delay),
                                  !.referer = Referer(url, customReferer)])

\* a check that looks one attempt too far
LastAttemptOffByOne(i, retries) == i = retries

\* if (i === retries - 1) throw error
LastAttempt(i, retries) == i = retries - 1

\* the await of fetch(url, { headers }) settles: a response (ok or with a
\* failure status) is returned; a throw is rethrown on the last attempt and
\* otherwise followed by setTimeout(resolve, delay)
AfterAttempt(c, outcome) ==
    IF outcome # "throw"
    THEN [c EXCEPT !.attempts = Append(@, outcome), !.pc = "returned", !.value = outcome]
    ELSE IF LastAttempt(c.i, c.retries)
    THEN [c EXCEPT !.attempts = Append(@, outcome), !.pc = "threw",
                   !.thrown = [kind |-> "fetch", attempt |-> c.i + 1]]
    ELSE [c EXCEPT !.attempts = Append(@, outcome), !.pc = "waiting"]

\* the timer fires: delay *= 1.5, i++, and the loop goes on
AfterWait(c) ==
    EnterLoop([c EXCEPT !.waits = Append(@, c.delay),
                        !.delay = TimesOneAndAHalf(@),
                        !.i = @ + 1])

RetryUrlSamples == {"https://mp.weixin.qq.com/s/abc", "HTTP://Example.com/a?b=1", "not a url"}
RetriesSamples == 0..MaxRetries
DelaySamples == {DELAY_DEFAULT, 200}
RefererSamples == {"", "https://mp.weixin.qq.com/"}

CallFetchWithRetry(url, retries, delay, customReferer) ==
    /\ retry.pc = "idle"
    /\ retry' = fetchWithRetry(url, retries, delay, customReferer)
    /\ UNCHANGED <<textVars, env, pipeVars>>

AttemptSettles(outcome) ==
    /\ retry.pc = "fetching"
    /\ retry' = AfterAttempt(retry, outcome)
    /\ UNCHANGED <<textVars, env, pipeVars>>

TimerFires ==
    /\ retry.pc = "waiting"
    /\ retry' = AfterWait(retry)
    /\ UNCHANGED <<textVars, env, pipeVars>>

----------------------------------------------------------------------------
(* SpecText: one call of one of the three pure functions on sample         *)
(* arguments; the state keeps the arguments and what the call returned.    *)

InitText ==
    /\ html = ""
    /\ markdown = ""
    /\ originalUrl = ""
    /\ returned = "none"
    /\ result = ""
    /\ r2PathInfo = NullPathInfo
    /\ imageUrls = <<>>
    /\ request = [path |-> "", format |-> ""]
    /\ routed = NoRoute
    /\ retry = NoCall

CallGenerate(u) ==
    /\ returned = "none"
    /\ originalUrl' = u
    /\ r2PathInfo' = generateR2PathFromUrl(u)
    /\ returned' = "generateR2PathFromUrl"
    /\ UNCHANGED <<html, markdown, result, imageUrls, request, routed, env, pipeVars, retry>>

CallExtract(h, md) ==
    /\ returned = "none"
    /\ html' = h
    /\ markdown' = md
    /\ imageUrls' = extractWechatImageUrls(h, md)
    /\ returned' = "extractWechatImageUrls"
    /\ UNCHANGED <<originalUrl, result, r2PathInfo, request, routed, env, pipeVars, retry>>

CallReplace(h, md, e) ==
    /\ returned = "none"
    /\ html' = h
    /\ markdown' = md
    /\ env' = e
    /\ result' = IF replaceThrows(h, md, e) THEN "" ELSE replaceImageUrlsSync(h, md, e)
    /\ returned' = IF replaceThrows(h, md, e) THEN "threw" ELSE "replaceImageUrlsSync"
    /\ UNCHANGED <<originalUrl, r2PathInfo, imageUrls, request, routed, pipeVars, retry>>

\* replaceImageUrlsSync called again, on its own output, with the same markup
\* and bindings
CallReplaceAgain ==
    /\ returned = "replaceImageUrlsSync"
    /\ markdown' = result
    /\ result' = IF replaceThrows(html, result, env) THEN ""
                 ELSE replaceImageUrlsSync(html, result, env)
    /\ returned' = IF replaceThrows(html, result, env) THEN "threw"
                   ELSE "replaceImageUrlsSync again"
    /\ UNCHANGED <<html, originalUrl, r2PathInfo, imageUrls, request, routed, env, pipeVars, retry>>

CallFetch(path, format) ==
    /\ returned = "none"
    /\ request' = [path |-> path, format |-> format]
    /\ routed' = fetch(path, format)
    /\ returned' = "fetch"
    /\ UNCHANGED <<html, markdown, originalUrl, result, r2PathInfo, imageUrls, env, pipeVars, retry>>

NextText ==
    \/ \E path \in PathSamples, format \in FormatSamples : CallFetch(path, format)
    \/ \E u \in UrlSamples : CallGenerate(u)
    \/ \E h \in HtmlSamples, md \in MarkdownSamples : CallExtract(h, md)
    \/ \E h \in HtmlSamples, md \in MarkdownSamples, e \in EnvSamples : CallReplace(h, md, e)
    \/ CallReplaceAgain

InitCalls == InitText /\ InitPipe /\ env = EnvConfigured

SpecText == InitCalls /\ [][NextText]_vars

----------------------------------------------------------------------------
(* Spec: requests served by convertWebpageToMarkdown, their uploads running *)
(* in the background against one bucket.                                   *)

Init == InitText /\ InitPipe /\ env \in EnvSamples

Next == \E r \in Requests : Handler(r) \/ Worker(r)

Spec == Init /\ [][Next]_vars

----------------------------------------------------------------------------
(* SpecUpload: one invocation of uploadImagesToR2Async(html, markdown, env) *)
(* on inputs of its own, against a bucket that may already hold an object.  *)

\* the bucket before the invocation: empty, or holding the object of U1
StoreSamples == { <<>>, PutObject(<<>>, r2Key(U1), PutOptions(U1, 0)) }

InitUpload ==
    /\ InitText
    /\ env \in EnvSamples
    /\ store \in StoreSamples
    /\ pc = [r \in Requests |-> "idle"]
    /\ page = [r \in Requests |-> 0]
    /\ response = [r \in Requests |-> NoResponse]
    /\ task = [r \in Requests |-> NoTask]
    /\ now = 0

Invoke(r, in) ==
    /\ \A q \in Requests : task[q].status = "none"
    /\ task' = [task EXCEPT ![r] = uploadImagesToR2Async(in.html, in.markdown, env, {})]
    /\ UNCHANGED <<textVars, retry, now, env, store, pc, page, response>>

NextUpload ==
    \/ \E in \in UploadSamples : Invoke(CHOOSE r \in Requests : TRUE, in)
    \/ \E r \in Requests : Worker(r)

SpecUpload == InitUpload /\ [][NextUpload]_vars

\* every head, image fetch and put that is awaited settles, and the event
\* loop runs the continuation of a batch that has settled
UploadFairness == WF_vars(\E r \in Requests : Worker(r))

SpecUploadFair == InitUpload /\ [][NextUpload]_vars /\ UploadFairness

----------------------------------------------------------------------------
(* SpecBatch: one invocation of uploadImagesToR2Async on a markup with up   *)
(* to twelve references, against an empty bucket; head answers, the image  *)
(* fetch succeeds or answers a failure status, put succeeds.               *)

BatchNames == <<"a", "b", "c", "d", "e", "f", "g", "h", "i", "j", "k", "l">>

BatchUrl(i) == "https://mmbiz.qpic.cn/b/" \o BatchNames[i]

RECURSIVE BatchHtml(_)
BatchHtml(n) == IF n = 0 THEN "" ELSE BatchHtml(n - 1) \o Img(BatchUrl(n))

BatchSizes == {3, 5, 10, Len(BatchNames)}

InitBatch ==
    /\ InitText
    /\ env = EnvConfigured
    /\ store = <<>>
    /\ pc = [r \in Requests |-> "idle"]
    /\ page = [r \in Requests |-> 0]
    /\ response = [r \in Requests |-> NoResponse]
    /\ task = [r \in Requests |-> NoTask]
    /\ now = 0

InvokeBatch(r, n) ==
    /\ \A q \in Requests : task[q].status = "none"
    /\ task' = [task EXCEPT ![r] = uploadImagesToR2Async(BatchHtml(n), "no image", env, {})]
    /\ UNCHANGED <<textVars, retry, now, env, store, pc, page, response>>

NextBatch ==
    \/ \E n \in BatchSizes : InvokeBatch(CHOOSE r \in Requests : TRUE, n)
    \/ \E r \in Requests : \E i \in 1..Len(task[r].urls) : HeadSettles(r, i, "answer")
    \/ \E r \in Requests : \E i \in 1..Len(task[r].urls) :
            \E o \in {"ok", "status"} : FetchSettles(r, i, o)
    \/ \E r \in Requests : \E i \in 1..Len(task[r].urls) : PutSettles(r, i, "ok")
    \/ \E r \in Requests : ChunkSettles(r)

SpecBatch == InitBatch /\ [][NextBatch]_vars

----------------------------------------------------------------------------
(* SpecRetention: invocations of uploadImagesToR2Async while the clock     *)
(* goes on.  The clock stays near the epoch: its values must fit the       *)
(* integers of the checker, and the code adds to it and formats it only.   *)

TimeSamples == {0, 1500, 57600000}

Tick(t) ==
    /\ t > now
    /\ now' = t
    /\ UNCHANGED <<textVars, retry, env, store, pc, page, response, task>>

RetentionSamples ==
    { [html |-> Img(U1), markdown |-> "![](" \o U1 \o ")"],
      [html |-> Img(UHttp), markdown |-> "![](" \o U1 \o ")"],
      [html |-> Img(ULogo) \o Img(U2), markdown |-> "no image"] }

NextRetention ==
    \/ \E in \in RetentionSamples : Invoke(CHOOSE r \in Requests : TRUE, in)
    \/ \E r \in Requests : Worker(r)
    \/ \E t \in TimeSamples : Tick(t)

SpecRetention == InitUpload /\ [][NextRetention]_vars

----------------------------------------------------------------------------
(* SpecRetry: one call of fetchWithRetry on sample arguments, every        *)
(* attempt answering, answering with a failure status, or throwing.        *)

NextRetry ==
    \/ \E url \in RetryUrlSamples, retries \in RetriesSamples,
          delay \in DelaySamples, customReferer \in RefererSamples :
            CallFetchWithRetry(url, retries, delay, customReferer)
    \/ \E outcome \in {"ok", "status", "throw"} : AttemptSettles(outcome)
    \/ TimerFires

SpecRetry == InitCalls /\ [][NextRetry]_vars

----------------------------------------------------------------------------
(* Claims about the pure functions (checked under SpecText) *)

\* the hosts the regular expression of extractWechatImageUrls accepts
ImageHosts == {"mmbiz.qpic.cn", "mmbiz.qlogo.cn"}

\* the storage URL the rewriter writes for an eligible reference
StorageUrl(e, url) == e.R2_PUBLIC_URL \o generateR2PathFromUrl(url).path

Eligible(url) == ~generateR2PathFromUrl(url).isNull

\* the occurrences of references in a document, in order
DocumentReferences(md) == TrimAll(MatchAll(md))

\* the maximal URL tokens of a text: each starts at "http://" or "https://"
\* outside an earlier token and runs to the next delimiter
UrlDelimiters == Whitespace \cup {"\"", "'", "<", ">", ")", "]"}

RECURSIVE UrlTokensFrom(_, _)
UrlTokensAt(s, j) ==
    IF j = 0 THEN <<>>
    ELSE <<SubSeq(s, j, SkipWhileNot(s, j, UrlDelimiters) - 1)>>
         \o UrlTokensFrom(s, SkipWhileNot(s, j, UrlDelimiters))

UrlTokensFrom(s, i) ==
    UrlTokensAt(s, FirstOr({j \in i..Len(s) : AfterScheme(s, j) > 0}, 0))

UrlTokens(s) == UrlTokensFrom(s, 1)

Count(seq, x) == Cardinality({i \in 1..Len(seq) : seq[i] = x})

\* C1: generateR2PathFromUrl returns null for every URL whose hostname is not
\* one of the allow-listed image hostnames, also when the URL carries the
\* allow-listed domain text in its path or query string.
C1_NullOutsideAllowList ==
    (/\ returned = "generateR2PathFromUrl"
     /\ ~URL(originalUrl).throws
     /\ URL(originalUrl).hostname \notin ImageHosts)
    => r2PathInfo.isNull

\* C2: with storage configured, the rewritten document holds no occurrence of
\* an eligible reference of the document, and for each such reference as many
\* occurrences of its storage URL as the document held of the reference.
C2_RewriteCompleteness ==
    (returned = "replaceImageUrlsSync" /\ R2Configured(env)) =>
        \A i \in 1..Len(DocumentReferences(markdown)) :
            LET u == DocumentReferences(markdown)[i]
            IN  Eligible(u) =>
                    /\ Occurrences(result, u) = 0
                    /\ Occurrences(result, StorageUrl(env, u))
                         = Count(DocumentReferences(markdown), u)

\* C3: after the rewrite no query string stays attached to a storage URL:
\* no occurrence of the storage URL of an extracted reference is followed by
\* "?" or "&".
C3_NoResidualQuery ==
    (returned = "replaceImageUrlsSync" /\ R2Configured(env)) =>
        \A k \in 1..Len(extractWechatImageUrls(html, markdown)) :
            LET u == extractWechatImageUrls(html, markdown)[k]
            IN  Eligible(u) =>
                    \A i \in 1..Len(result) :
                        StartsWithAt(result, i, StorageUrl(env, u))
                        => At(result, i + Len(StorageUrl(env, u))) \notin {"?", "&"}

\* C4: every URL of the document whose host is outside the allow-list is in
\* the rewritten document byte for byte, as often as before.
C4_IneligiblePassthrough ==
    returned = "replaceImageUrlsSync" =>
        \A i \in 1..Len(UrlTokens(markdown)) :
            LET t == UrlTokens(markdown)[i]
            IN  (~URL(t).throws /\ URL(t).hostname \notin ImageHosts)
                => Count(UrlTokens(result), t) = Count(UrlTokens(markdown), t)

----------------------------------------------------------------------------
(* Claims about the request pipeline (checked under Spec) *)

ConfigAbsent == ~env.IMAGES_BUCKET \/ env.R2_PUBLIC_URL = ""

IoSettled(t) == \E i \in 1..Len(t.ref) : t.ref[i].phase \notin {"queued", "skipped", "head"}

\* C5: with the store binding or the public base URL absent, the rewrite
\* returns the document it was given, and the upload issues no head, no image
\* fetch and no put and completes without error.
C5_NoConfigNoOp ==
    ConfigAbsent =>
        /\ DOMAIN store = {}
        /\ \A r \in Requests :
            /\ response[r].status = 200 => response[r].body = Pages[page[r]].markdown
            /\ task[r].status \in {"none", "resolved"}
            /\ task[r].ref = <<>>

C5_Witness ==
    /\ ConfigAbsent
    /\ \E r \in Requests :
        /\ response[r].status = 200
        /\ MatchAll(Pages[page[r]].markdown) # <<>>
        /\ MatchAll(Pages[page[r]].html) # <<>>
        /\ task[r].status = "resolved"

\* C6: when the upload runs twice, one run after the other, for the same
\* single eligible reference and the first run fetched and stored it, the
\* second run issues neither an image fetch nor a put: once its head has
\* answered, the reference is skipped as present.
C6_IdempotentCaching ==
    \A r1 \in Requests, r2 \in Requests :
        (/\ r1 \in task[r2].after
         /\ Len(task[r1].urls) = 1
         /\ task[r2].urls = task[r1].urls
         /\ task[r1].ref[1].phase = "stored")
        => /\ task[r2].ref[1].phase \in {"head", "exists", "headThrew"}
           /\ task[r2].ref[1].fetch = "none"

C6_Witness ==
    \E r1 \in Requests, r2 \in Requests :
        /\ r1 \in task[r2].after
        /\ Len(task[r1].urls) = 1
        /\ task[r2].urls = task[r1].urls
        /\ task[r1].ref[1].phase = "stored"
        /\ task[r2].ref[1].phase = "exists"
        /\ task[r2].status = "resolved"

\* C7: while a request has produced no response, no head, image fetch or put
\* of its background task has settled; the response of a converted page
\* carries the rewritten document.
C7_ResponseNotDelayed ==
    \A r \in Requests :
        /\ response[r].status = 0 => ~IoSettled(task[r])
        /\ response[r].status = 200 => response[r].body = Rewritten(r)

C7_Witness ==
    \E r \in Requests :
        /\ response[r].status = 200
        /\ response[r].body # Pages[page[r]].markdown
        /\ \E i \in 1..Len(task[r].ref) : task[r].ref[i].phase = "stored"

\* C8: two requests for the same page that both got the page and its
\* conversion return the same status and body, whatever the heads, image
\* fetches and puts of their background tasks did.
C8_ResponseIndependent ==
    \A r1 \in Requests, r2 \in Requests :
        (/\ page[r1] = page[r2]
         /\ pc[r1] = "responded" /\ task[r1].status # "none"
         /\ pc[r2] = "responded" /\ task[r2].status # "none")
        => response[r1] = response[r2]

C8_Witness ==
    \E r1 \in Requests, r2 \in Requests :
        /\ page[r1] = page[r2]
        /\ response[r1].status = 200 /\ response[r2].status = 200
        /\ task[r1].status = "resolved" /\ task[r2].status = "resolved"
        /\ Len(task[r1].ref) = 1 /\ Len(task[r2].ref) = 1
        /\ task[r1].ref[1].phase = "stored"
        /\ task[r2].ref[1].phase \in {"headThrew", "fetchFailed", "putThrew"}

\* C20: a page that answers with a failure status gives 502, a conversion
\* without result 500, a throw 500, and the handler always answers; on these
\* paths no background task is registered, so nothing is issued for the
\* request; a request answered with the document has registered its task.
C20_FailurePaths ==
    \A r \in Requests :
        /\ response[r].via = "upstream" => response[r].status = 502
        /\ response[r].via \in {"empty", "catch"} => response[r].status = 500
        /\ response[r].via \in {"upstream", "empty", "catch"}
            => (task[r].status = "none" /\ task[r].ref = <<>>)
        /\ response[r].via = "ok"
            => (response[r].status = 200 /\ task[r].status # "none")
        /\ pc[r] = "responded" => response[r].via # "none"
        /\ response[r].status \in {500, 502} => task[r].status = "none"

C20_Witness ==
    \E r1 \in Requests, r2 \in Requests :
        /\ response[r1].via = "empty"
        /\ MatchAll(Pages[page[r1]].html) # <<>>
        /\ task[r1].status = "none"
        /\ page[r2] = page[r1]
        /\ response[r2].via = "ok"
        /\ task[r2].status = "resolved"
        /\ Len(task[r2].ref) = 1

----------------------------------------------------------------------------
(* Claims about the upload (checked under SpecUpload) *)

\* C9: whatever head, image fetch and put do, the promise of
\* uploadImagesToR2Async is never rejected, and it is resolved once the
\* callbacks of its last batch have settled.
C9_NeverRejects ==
    \A r \in Requests :
        /\ task[r].status # "rejected"
        /\ (/\ task[r].status # "none"
            /\ \A i \in 1..Len(task[r].ref) : task[r].ref[i].phase \in SettledPhases)
           => (task[r].status = "resolved" \/ ENABLED ChunkSettles(r))

C9_Witness ==
    \E r \in Requests :
        /\ task[r].status = "resolved"
        /\ \E i \in 1..Len(task[r].ref) : task[r].ref[i].phase = "headThrew"
        /\ \E i \in 1..Len(task[r].ref) : task[r].ref[i].phase = "putThrew"
        /\ \E i \in 1..Len(task[r].ref) : task[r].ref[i].fetch = "status"
        /\ \E i \in 1..Len(task[r].ref) : task[r].ref[i].fetch = "throw"

FetchFailed(t) == \E i \in 1..Len(t.ref) : t.ref[i].fetch \in {"status", "throw"}

\* C10: a reference whose image fetch failed gets no put, and an invocation
\* with a failed fetch still completes with every other reference processed:
\* an eligible one was head-checked and then skipped as present, or fetched
\* and, its fetch succeeding, put.
C10_FetchFailureIsolation ==
    \A r \in Requests :
        /\ \A i \in 1..Len(task[r].ref) :
                task[r].ref[i].fetch \in {"status", "throw"}
                => task[r].ref[i].phase = "fetchFailed"
        /\ (task[r].status = "resolved" /\ FetchFailed(task[r]))
           => \A j \in 1..Len(task[r].ref) :
                /\ task[r].ref[j].phase \in SettledPhases
                /\ Eligible(task[r].urls[j]) => task[r].ref[j].phase # "skipped"
                /\ task[r].ref[j].fetch = "ok" => task[r].ref[j].phase \in {"stored", "putThrew"}

C10_Witness ==
    \E r \in Requests :
        /\ task[r].status = "resolved"
        /\ Len(task[r].ref) > CONCURRENCY_LIMIT
        /\ task[r].ref[2].fetch = "status"
        /\ task[r].ref[3].fetch = "throw"
        /\ task[r].ref[4].phase = "stored"
        /\ task[r].ref[CONCURRENCY_LIMIT + 1].phase = "stored"

\* the operations of a callback in the order of the code
OpsInOrder == <<"head", "fetch", "put">>

StoreThrew(t) == \E i \in 1..Len(t.ref) : t.ref[i].phase \in RejectedPhases

\* C11: a reference whose head or put threw is abandoned: head, image fetch
\* and put are issued at most once per listed reference, in this order, and
\* after a throw nothing more is issued for it; an invocation in which head or
\* put threw still completes with every other reference processed.
C11_StoreFailureIsolation ==
    \A r \in Requests :
        /\ \A i \in 1..Len(task[r].ref) :
                /\ Len(task[r].ref[i].ops) <= Len(OpsInOrder)
                /\ task[r].ref[i].ops = SubSeq(OpsInOrder, 1, Len(task[r].ref[i].ops))
                /\ task[r].ref[i].phase = "headThrew" => task[r].ref[i].ops = <<"head">>
                /\ task[r].ref[i].phase = "putThrew" => task[r].ref[i].ops = OpsInOrder
        /\ (task[r].status = "resolved" /\ StoreThrew(task[r]))
           => \A j \in 1..Len(task[r].ref) :
                /\ task[r].ref[j].phase \in SettledPhases
                /\ Eligible(task[r].urls[j]) => Len(task[r].ref[j].ops) >= 1
                /\ task[r].ref[j].fetch = "ok" => task[r].ref[j].ops = OpsInOrder

C11_Witness ==
    \E r \in Requests :
        /\ task[r].status = "resolved"
        /\ Len(task[r].ref) > CONCURRENCY_LIMIT
        /\ task[r].ref[2].phase = "headThrew"
        /\ task[r].ref[3].phase = "putThrew"
        /\ task[r].ref[4].phase = "stored"
        /\ task[r].ref[CONCURRENCY_LIMIT + 1].phase = "stored"

\* the example of the key formula
KeyExample == "https://mmbiz.qpic.cn/sz_mmbiz_png/abc123/640?wx_fmt=png"

\* C14: for a reference it accepts, generateR2PathFromUrl returns the path
\* "/" + hostname with every "." replaced by "_" + "/" + URL path without its
\* leading slash + "." + extension; the example reference yields
\* "/mmbiz_qpic_cn/sz_mmbiz_png/abc123/640.png".
C14_KeyFormula ==
    (returned = "generateR2PathFromUrl" /\ ~r2PathInfo.isNull) =>
        LET h == URL(originalUrl).hostname
            body == URL(originalUrl).pathname
            key == r2PathInfo.path
        IN  /\ At(key, 1) = "/"
            /\ \A k \in 1..Len(h) : At(key, k + 1) = IF At(h, k) = "." THEN "_" ELSE At(h, k)
            /\ At(key, Len(h) + 2) = "/"
            /\ SubSeq(key, Len(h) + 3, Len(key))
                 = SubSeq(body, 2, Len(body)) \o "." \o r2PathInfo.extension
            /\ originalUrl = KeyExample
                => key = "/mmbiz_qpic_cn/sz_mmbiz_png/abc123/640.png"

C14_Witness ==
    /\ returned = "generateR2PathFromUrl"
    /\ originalUrl = KeyExample
    /\ r2PathInfo.path = "/mmbiz_qpic_cn/sz_mmbiz_png/abc123/640.png"
    /\ r2PathInfo.extension = "png"

\* C15: a non-empty wx_fmt parameter decides the extension ("jpeg" gives
\* "jpg", any other value itself), also when the path holds a hint; without
\* it the first hint of the path in the order "_png", "_gif", "_jpg"/"_jpeg"
\* decides; without a hint the extension is "jpg".
C15_ExtensionPriority ==
    (returned = "generateR2PathFromUrl" /\ ~r2PathInfo.isNull) =>
        LET wxFmt == searchParamsGet(URL(originalUrl).search, "wx_fmt")
            urlPath == URL(originalUrl).pathname
            ext == r2PathInfo.extension
        IN  /\ wxFmt = "jpeg" => ext = "jpg"
            /\ wxFmt \notin {"", "jpeg"} => ext = wxFmt
            /\ (wxFmt = "" /\ includes(urlPath, "_png")) => ext = "png"
            /\ (wxFmt = "" /\ ~includes(urlPath, "_png") /\ includes(urlPath, "_gif"))
               => ext = "gif"
            /\ (wxFmt = "" /\ ~includes(urlPath, "_png") /\ ~includes(urlPath, "_gif"))
               => ext = "jpg"

C15_Witness ==
    /\ returned = "generateR2PathFromUrl"
    /\ searchParamsGet(URL(originalUrl).search, "wx_fmt") = "jpeg"
    /\ includes(URL(originalUrl).pathname, "_gif")
    /\ r2PathInfo.extension = "jpg"

\* C16: the list extractWechatImageUrls returns holds no reference twice.
C16_NoDuplicates ==
    returned = "extractWechatImageUrls" =>
        \A i \in 1..Len(imageUrls) :
            \A j \in 1..Len(imageUrls) : i # j => imageUrls[i] # imageUrls[j]

\* one reference with its query separator entity-escaped and raw
EntityForm == U1 \o "?wx_fmt=png&amp;from=appmsg"
RawForm == U1 \o "?wx_fmt=png&from=appmsg"

\* C17: with the markup holding a reference with "&amp;" and the document
\* holding it with "&", the extracted list holds one reference for it, which
\* keeps the path and the first parameter and occurs in both texts; the
\* rewrite matches it in the document in either encoding, so none of its
\* occurrences is left.
C17_EntityEscapedReference ==
    /\ (/\ returned = "extractWechatImageUrls"
         /\ includes(html, EntityForm)
         /\ includes(markdown, RawForm))
        => /\ Cardinality({i \in 1..Len(imageUrls) : StartsWithAt(imageUrls[i], 1, U1)}) = 1
           /\ \A i \in 1..Len(imageUrls) :
                StartsWithAt(imageUrls[i], 1, U1)
                => /\ imageUrls[i] = U1 \o "?wx_fmt=png"
                   /\ includes(html, imageUrls[i])
                   /\ includes(markdown, imageUrls[i])
    /\ (/\ returned = "replaceImageUrlsSync"
         /\ R2Configured(env)
         /\ includes(html, EntityForm)
         /\ includes(markdown, U1 \o "?wx_fmt=png&"))
        => Occurrences(result, U1 \o "?wx_fmt=png") = 0

C17_Witness ==
    /\ returned = "extractWechatImageUrls"
    /\ includes(html, EntityForm)
    /\ includes(markdown, RawForm)
    /\ imageUrls = <<U1 \o "?wx_fmt=png">>

\* C18: generateR2PathFromUrl returns null for a string that is no URL, and
\* no call of generateR2PathFromUrl or replaceImageUrlsSync throws: each
\* returns, the rewrite with a document.
C18_NeverThrows ==
    /\ returned # "threw"
    /\ (returned = "generateR2PathFromUrl" /\ URL(originalUrl).throws)
        => r2PathInfo = NullPathInfo
    /\ (returned = "replaceImageUrlsSync" /\ ~R2Configured(env)) => result = markdown

C18_Witness ==
    /\ returned = "replaceImageUrlsSync"
    /\ includes(markdown, "(1[*+")
    /\ result # markdown

\* C19: /health and /healthz answer 200; / answers the home page; /s/{id}
\* converts article {id} to Markdown; /html/s/{id} and /s/{id}.html convert
\* article {id} in HTML mode, ".html" not being part of the id; /md is in
\* HTML mode exactly with format=html and /html/md always; every other path
\* and an empty article id answer 400 and call no converting function.
C19_Routing ==
    returned = "fetch" =>
        LET path == request.path
            isArticle == StartsWithAt(path, 1, "/s/") \/ StartsWithAt(path, 1, "/html/s/")
        IN  /\ path \in {"/health", "/healthz"} => (routed.status = 200 /\ routed.kind = "health")
            /\ path = "/" => (routed.status = 200 /\ routed.kind = "home")
            /\ path \in {"/s/abc", "/html/s/abc", "/s/abc.html"}
                => /\ routed.calls = "convertWebpageToMarkdown"
                   /\ routed.articleId = "abc"
                   /\ routed.url = "https://mp.weixin.qq.com/s/abc"
                   /\ routed.isHtmlMode = (path # "/s/abc")
            /\ path = "/md"
                => (routed.calls = "handleGenericWebpage"
                    /\ routed.isHtmlMode = (request.format = "html"))
            /\ path = "/html/md"
                => (routed.calls = "handleGenericWebpage" /\ routed.isHtmlMode)
            /\ (\/ path \in {"/s/", "/s/.html", "/html/s/"}
                 \/ (~isArticle /\ path \notin {"/health", "/healthz", "/", "", "/md", "/html/md"}))
                => (routed.status = 400 /\ routed.calls = "none")
            /\ routed.calls = "convertWebpageToMarkdown"
                => (isArticle /\ routed.articleId # "")

C19_Witness ==
    /\ returned = "fetch"
    /\ request.path = "/s/abc.html"
    /\ routed.calls = "convertWebpageToMarkdown"
    /\ routed.isHtmlMode
    /\ routed.articleId = "abc"

----------------------------------------------------------------------------
(* Claims about the batches (checked under SpecBatch) *)

\* the batch of the i-th extracted reference
BatchOf(i) == (i - 1) \div CONCURRENCY_LIMIT + 1

InFlight(t) == {i \in 1..Len(t.ref) : t.ref[i].phase \in PendingPhases}

\* C12: the n extracted references are dispatched in extraction order in
\* ceil(n/5) batches of consecutive references, five to a batch but for a
\* shorter last one; a batch is dispatched as a whole, and only after every
\* reference of the batch before has settled, so at most 5 are in flight.
C12_SequentialBatches ==
    \A r \in Requests :
        LET t == task[r]
            n == Len(t.urls)
        IN  /\ \A i \in 1..n : t.urls[i] = BatchUrl(i)
            /\ Cardinality(InFlight(t)) <= CONCURRENCY_LIMIT
            /\ \A i \in 1..n :
                    t.ref[i].phase = "queued" <=> BatchOf(i) > t.chunk
            /\ \A i \in 1..n :
                    BatchOf(i) < t.chunk => t.ref[i].phase \in SettledPhases
            /\ t.status = "running" => t.chunk \in 1..BatchOf(n)
            /\ (t.status = "resolved" /\ n > 0)
               => /\ t.chunk = BatchOf(n)
                  /\ \A i \in 1..n : t.ref[i].phase \in SettledPhases

C12_Witness ==
    \E r \in Requests :
        /\ Len(task[r].urls) = 12
        /\ task[r].chunk = 3
        /\ task[r].ref[8].phase = "fetchFailed"
        /\ \A i \in 1..10 : task[r].ref[i].phase \in SettledPhases
        /\ InFlight(task[r]) = {11, 12}

----------------------------------------------------------------------------
(* Claims about the rewriter and the worker of one request (checked under  *)
(* Spec)                                                                   *)

\* the keys of the references that replaceImageUrlsSync(processedHtml,
\* markdownContent, env) replaced in the document of each page: the
\* extracted references it accepts that occur in the document
PageReplaced ==
    [e \in EnvSamples |->
        [p \in 1..Len(Pages) |->
            IF ~R2Configured(e) THEN {}
            ELSE { r2Key(u) :
                     u \in { x \in { extractWechatImageUrls(Pages[p].html, Pages[p].markdown)[i] :
                                       i \in 1..Len(extractWechatImageUrls(Pages[p].html,
                                                                           Pages[p].markdown)) } :
                               Eligible(x) /\ includes(Pages[p].markdown, x) } }]]

\* the keys the callbacks of a task have issued a head for
HeadChecked(t) ==
    { t.ref[i].r2Key : i \in { j \in 1..Len(t.ref) : Len(t.ref[j].ops) >= 1 } }

\* C21: for every reference that replaceImageUrlsSync replaced in the
\* response of a request, the background task of the same request has issued
\* a head for that reference's key by the time it completes, also for a
\* reference that occurs only in the converted document and not in the markup.
C21_WorkerCoversRewritten ==
    \A r \in Requests :
        (response[r].via = "ok" /\ task[r].status = "resolved")
        => PageReplaced[env][page[r]] \subseteq HeadChecked(task[r])

\* the URL under which the public base URL serves the object of a key
PublicLocation(e, key) == e.R2_PUBLIC_URL \o "/" \o key

\* C22: for every eligible reference, the URL that replaceImageUrlsSync
\* writes into the document equals the public base URL + '/' + the store key
\* that uploadImagesToR2Async passes to head and put for that reference; seen
\* on the documents that hold one reference once.
C22_SameLocation ==
    (/\ returned = "replaceImageUrlsSync"
     /\ ~ConfigAbsent
     /\ Len(extractWechatImageUrls(html, markdown)) = 1
     /\ Len(MatchAll(markdown)) = 1
     /\ Eligible(extractWechatImageUrls(html, markdown)[1]))
    => /\ StartCallback(extractWechatImageUrls(html, markdown)[1]).ops = <<"head">>
       /\ includes(result,
                   PublicLocation(env, StartCallback(extractWechatImageUrls(html, markdown)[1]).r2Key))

----------------------------------------------------------------------------
(* Claims about the extractor and the rewriter together (checked under    *)
(* SpecText)                                                               *)

\* C29: every reference returned by extractWechatImageUrls is accepted by
\* generateR2PathFromUrl (the result is not null), so every extracted
\* reference is rewritten and stored.
C29_ExtractedAreEligible ==
    returned = "extractWechatImageUrls"
    => \A i \in 1..Len(imageUrls) : ~generateR2PathFromUrl(imageUrls[i]).isNull

\* C30: with a public base URL that is not itself an allow-listed image
\* host, replaceImageUrlsSync applied to its own output, with the same markup
\* and configuration, returns that output unchanged.
C30_RewriteIdempotent ==
    returned = "replaceImageUrlsSync again" => result = markdown

----------------------------------------------------------------------------
(* Claims about the bucket under concurrent tasks (checked under Spec) *)

\* the callback of reference i of request r goes from one phase to another
Moves(r, i, from, to) ==
    /\ i <= Len(task'[r].ref)
    /\ task[r].ref[i].phase = from
    /\ task'[r].ref[i].phase = to

\* C23 as stated: once an object has been put under a key, no later put to
\* that key is issued, so a stored object is never overwritten.
C23_WriteOnce ==
    [][\A r \in Requests : \A i \in 1..Len(task[r].ref) :
            /\ Moves(r, i, "fetch", "put") => task[r].ref[i].r2Key \notin DOMAIN store
            /\ Moves(r, i, "put", "stored") => task[r].ref[i].r2Key \notin DOMAIN store]_vars

\* C23, amended: a callback goes on to the image fetch and the put only if
\* its own head found no object under the key, and a callback whose head is
\* answered when the key holds an object issues nothing more; objects are
\* never removed. A put to a key that holds an object therefore comes only
\* from a callback whose head was answered before the first put to that key.
C23_PutOnlyAfterAbsentHead ==
    [][/\ \A r \in Requests : \A i \in 1..Len(task[r].ref) :
            /\ (task[r].ref[i].r2Key \in DOMAIN store /\ i <= Len(task'[r].ref)
                /\ task[r].ref[i].phase = "head")
               => task'[r].ref[i].phase \in {"head", "exists", "headThrew"}
            /\ (i <= Len(task'[r].ref) /\ task[r].ref[i].phase = "exists")
               => task'[r].ref[i] = task[r].ref[i]
            /\ task[r].ref[i].phase = "exists" => task[r].ref[i].ops = <<"head">>
       /\ DOMAIN store \subseteq DOMAIN store']_vars

\* two concurrent requests for the same page: the callback of one stored the
\* object, the callback of the other, its head answered before that, has put
\* the object again
C23_Witness ==
    \E r1 \in Requests, r2 \in Requests :
        /\ r1 # r2
        /\ Len(task[r1].ref) = 1 /\ Len(task[r2].ref) = 1
        /\ task[r1].ref[1].r2Key = task[r2].ref[1].r2Key
        /\ task[r1].ref[1].phase = "stored"
        /\ task[r2].ref[1].phase = "stored"

----------------------------------------------------------------------------
(* Claims about one invocation of the upload (checked under SpecUpload) *)

\* the operations op that the callbacks of a task have issued for a key
IssuedFor(t, key, op) ==
    { i \in 1..Len(t.ref) :
        /\ t.ref[i].r2Key = key
        /\ \E k \in 1..Len(t.ref[i].ops) : t.ref[i].ops[k] = op }

\* C24: within one invocation of uploadImagesToR2Async at most one image
\* fetch and at most one put is issued per storage key, also when several
\* entries of the extracted list derive the same key and fall into the same
\* batch.
C24_OneFetchPerKey ==
    \A r \in Requests : \A i \in 1..Len(task[r].ref) :
        /\ Cardinality(IssuedFor(task[r], task[r].ref[i].r2Key, "fetch")) <= 1
        /\ Cardinality(IssuedFor(task[r], task[r].ref[i].r2Key, "put")) <= 1

----------------------------------------------------------------------------
(* Claims about what the rewriter and the worker leave alone (checked      *)
(* under Spec)                                                             *)

\* C26: the step of the handler in which replaceImageUrlsSync runs leaves
\* the bucket as it is; the bucket changes only when a put of a callback of
\* uploadImagesToR2Async resolves, and then by the object of that callback's
\* key; no step of a worker changes a response, and a document that has been
\* returned never changes.
C26_FrameEffects ==
    [][/\ \A r \in Requests :
            /\ pc'[r] # pc[r] => store' = store
            /\ response[r].via = "ok" => response'[r] = response[r]
       /\ store' # store
          => /\ pc' = pc
             /\ \E r \in Requests : \E i \in 1..Len(task[r].ref) :
                    /\ Moves(r, i, "put", "stored")
                    /\ DOMAIN store' = DOMAIN store \cup {task[r].ref[i].r2Key}
       /\ pc' = pc => response' = response]_vars

\* a request whose document was rewritten and returned, and whose worker then
\* stored the object, beside a request whose document was rewritten while its
\* task found nothing to do
C26_Witness ==
    \E r \in Requests, q \in Requests :
        /\ response[r].via = "ok"
        /\ response[r].body = PageRewritten[env][page[r]]
        /\ response[r].body # Pages[page[r]].markdown
        /\ task[r].status = "resolved"
        /\ \E i \in 1..Len(task[r].ref) :
                task[r].ref[i].phase = "stored" /\ task[r].ref[i].r2Key \in DOMAIN store
        /\ response[q].via = "ok"
        /\ response[q].body # Pages[page[q]].markdown
        /\ task[q].ref = <<>>

----------------------------------------------------------------------------
(* Liveness of one invocation of the upload (checked under SpecUploadFair) *)

\* every reference of the list that generateR2PathFromUrl accepts has had
\* its head issued
AllHeadChecked(t) ==
    \A i \in 1..Len(t.ref) : Eligible(t.urls[i]) => Len(t.ref[i].ops) >= 1

\* C27: provided every head, image fetch and put eventually settles, an
\* invocation of uploadImagesToR2Async that is running eventually completes,
\* and when it completes every extracted eligible reference has been
\* head-checked, whatever failed in earlier references or earlier batches.
C27_UploadCompletes ==
    \A r \in Requests :
        (task[r].status = "running")
            ~> (task[r].status = "resolved" /\ AllHeadChecked(task[r]))

\* a completed invocation on more than one batch, in which references of the
\* first batch failed at head, fetch and put and the reference of the second
\* batch was head-checked and stored
C27_Witness ==
    \E r \in Requests :
        /\ task[r].status = "resolved"
        /\ task[r].chunk = 2
        /\ AllHeadChecked(task[r])
        /\ task[r].ref[2].phase = "headThrew"
        /\ task[r].ref[3].phase = "fetchFailed"
        /\ task[r].ref[4].phase = "putThrew"
        /\ task[r].ref[CONCURRENCY_LIMIT + 1].ops = OpsInOrder

----------------------------------------------------------------------------
(* Claims about the metadata of stored objects (checked under              *)
(* SpecRetention)                                                          *)

\* C25: every put issued by uploadImagesToR2Async carries
\* customMetadata.originalUrl equal to the reference that was fetched and
\* customMetadata.expiresAt equal to the time of the put call plus exactly
\* 8 hours (28 800 000 ms), as an ISO 8601 string; its cache-control max-age,
\* 28800 seconds, is that same window; the object stored is what the put
\* carried, and no step of the worker removes an object.
C25_PutMetadata ==
    [][/\ \A r \in Requests : \A i \in 1..Len(task[r].ref) :
            /\ Moves(r, i, "fetch", "put")
               => /\ task'[r].ref[i].options.originalUrl = task[r].urls[i]
                  /\ task'[r].ref[i].options.expiresAt = toISOString(now + 28800000)
                  /\ task'[r].ref[i].options.cacheControl
                        = "public, max-age=" \o ToString(28800000 \div 1000)
                  /\ now = 0
                     => task'[r].ref[i].options.expiresAt = "1970-01-01T08:00:00.000Z"
                  /\ now = 57600000
                     => task'[r].ref[i].options.expiresAt = "1970-01-02T00:00:00.000Z"
            /\ Moves(r, i, "put", "stored")
               => store'[task[r].ref[i].r2Key] = task[r].ref[i].options
            /\ (i <= Len(task'[r].ref) /\ task[r].ref[i].phase = "put")
               => task'[r].ref[i].options = task[r].ref[i].options
       /\ \A key \in DOMAIN store : key \in DOMAIN store']_vars

\* an object put at 1500 ms: it expires at 8 h and 1.5 s, and a second object
\* put under the same key for the other spelling of the reference is there
\* when the clock has gone on
C25_Witness ==
    \E r \in Requests :
        /\ Len(task[r].ref) = 2
        /\ task[r].ref[1].phase = "stored"
        /\ task[r].ref[1].options.expiresAt = "1970-01-01T08:00:01.500Z"
        /\ task[r].ref[2].phase = "stored"
        /\ task[r].ref[2].r2Key = task[r].ref[1].r2Key
        /\ store[task[r].ref[2].r2Key].originalUrl = U1
        /\ store[task[r].ref[2].r2Key].expiresAt = "1970-01-02T00:00:00.000Z"
        /\ store[task[r].ref[2].r2Key].cacheControl = CACHE_CONTROL

----------------------------------------------------------------------------
(* Claims about fetchWithRetry (checked under SpecRetry) *)

RECURSIVE Pow(_, _)
Pow(b, n) == IF n = 0 THEN 1 ELSE b * Pow(b, n - 1)

\* the fraction d is first times 1.5 to the power n
IsScaled(d, first, n) == d.num * first.den * Pow(2, n) = first.num * Pow(3, n) * d.den

\* C28: fetchWithRetry(url, retries) with retries >= 1 makes at most retries
\* attempts; it returns the response of the first attempt that does not
\* throw, also one with a failure status, and makes no attempt after that; it
\* waits after each failed attempt but the last, the k-th time for the first
\* delay (1000 ms by default) times 1.5 to the power k - 1; after retries
\* thrown attempts it rethrows the error of the last attempt.
C28_RetryBound ==
    (retry.pc # "idle" /\ retry.retries >= 1 /\ retry.thrown.kind # "TypeError")
    => /\ Len(retry.attempts) <= retry.retries
       /\ \A k \in 1..(Len(retry.attempts) - 1) : retry.attempts[k] = "throw"
       /\ retry.pc = "returned"
          <=> (retry.attempts # <<>> /\ retry.attempts[Len(retry.attempts)] # "throw")
       /\ retry.pc = "returned" => retry.value = retry.attempts[Len(retry.attempts)]
       /\ retry.pc = "threw"
          <=> (/\ Len(retry.attempts) = retry.retries
               /\ retry.attempts[retry.retries] = "throw")
       /\ retry.pc = "threw"
          => retry.thrown = [kind |-> "fetch", attempt |-> retry.retries]
       /\ Len(retry.waits) = IF retry.pc = "fetching" THEN Len(retry.attempts)
                             ELSE Len(retry.attempts) - 1
       /\ \A k \in 1..Len(retry.waits) : IsScaled(retry.waits[k], retry.first, k - 1)
       /\ (retry.first = [num |-> 1000, den |-> 1] /\ Len(retry.waits) >= 3)
          => /\ retry.waits[1] = [num |-> 1000, den |-> 1]
             /\ retry.waits[2].num = 1500 * retry.waits[2].den
             /\ retry.waits[3].num = 2250 * retry.waits[3].den

\* the call with the default retries and delay whose three attempts threw:
\* it waited 1000 ms and 1500 ms and rethrew the error of the third attempt
C28_Witness ==
    /\ retry.retries = RETRIES_DEFAULT
    /\ retry.first = Ms(DELAY_DEFAULT)
    /\ retry.attempts = <<"throw", "throw", "throw">>
    /\ Len(retry.waits) = 2
    /\ retry.pc = "threw"
    /\ retry.thrown = [kind |-> "fetch", attempt |-> 3]

====
